---------------------------- MODULE Spec2Model ----------------------------
(***************************************************************************)
(* Bulk upload of nomic/atlas.py: map_text and map_embeddings.             *)
(*                                                                         *)
(* One behaviour is one call of one of the two entry operations.  Init     *)
(* draws the caller's arguments and the state of the remote dataset; each  *)
(* action is one stretch of the function body between two remote calls.    *)
(* Every remote call is appended to `calls` with its arguments and its     *)
(* outcome, so that the claims can be read off the call log.               *)
(*                                                                         *)
(* A record (a Python dict) is a function from field names to values; a    *)
(* value (a Python str) is a sequence of one-character strings.            *)
(***************************************************************************)
EXTENDS Integers, Sequences, FiniteSets, TLC

(* Bounds of the model. *)
\* longest input (records of `data`, rows of `embeddings`)
MaxLen == 5
\* atlas.py:245 sets upload_batch_size = 100_000; the model scales it down so
\* that inputs of MaxLen records cross several batch boundaries.  The loop of
\* lines 252-264 tests the size only after an append to a batch that already
\* holds a record, so the value must be at least 2, as it is in the source.
upload_batch_size == 2

(* settings.py: ATLAS_DEFAULT_ID_FIELD *)
ATLAS_DEFAULT_ID_FIELD == "id_"

(***************************************************************************)
(* utils.b64int: the base64 text of the 8-byte big-endian encoding of i.   *)
(* 8 bytes are 64 bits: 10 full sextets, an 11th holding the last 4 bits   *)
(* followed by two zero bits, and one "=" of padding.                      *)
(***************************************************************************)
B64Alphabet ==
    << "A","B","C","D","E","F","G","H","I","J","K","L","M",
       "N","O","P","Q","R","S","T","U","V","W","X","Y","Z",
       "a","b","c","d","e","f","g","h","i","j","k","l","m",
       "n","o","p","q","r","s","t","u","v","w","x","y","z",
       "0","1","2","3","4","5","6","7","8","9","+","/" >>

RECURSIVE Sextet(_, _)
\* the sextet of weight 64^e of the number n
Sextet(n, e) == IF e = 0 THEN n % 64 ELSE Sextet(n \div 64, e - 1)

b64int(i) ==
    [k \in 1..12 |-> IF k = 12 THEN "=" ELSE B64Alphabet[Sextet(i * 4, 11 - k) + 1]]

(***************************************************************************)
(* The records the caller may pass.  "text" is the indexed field, "id_"    *)
(* the default identifier field, "uid" an identifier field of the caller.  *)
(***************************************************************************)
RecPlain == [text |-> <<"t">>]
RecId    == [text |-> <<"t">>, id_ |-> <<"u">>]
RecUid   == [text |-> <<"t">>, uid |-> <<"v">>]
RecordSet == {RecPlain, RecId, RecUid}

\* a record the remote dataset holds before the call
RecOld == [text |-> <<"o">>, id_ |-> <<"o">>]

RECURSIVE SeqsUpTo(_, _)
SeqsUpTo(S, n) ==
    IF n = 0 THEN {<< >>}
    ELSE LET shorter == SeqsUpTo(S, n - 1)
         IN  shorter \cup {Append(s, x) : s \in {t \in shorter : Len(t) = n - 1}, x \in S}

\* the projection and topic parameters a caller may pass to either operation
ParamSet ==
    { [build_topic_model |-> TRUE,  projection_n_neighbors |-> 15,
       projection_epochs |-> 50, projection_spread |-> 1],
      [build_topic_model |-> FALSE, projection_n_neighbors |-> 5,
       projection_epochs |-> 10, projection_spread |-> 2] }

VARIABLES
    fn,             \* the entry operation called: "map_text" or "map_embeddings"
    input,          \* the list the caller passed as `data`, as it was at the call
    callerList,     \* the caller's list object as it is now
    callerRecords,  \* the caller's record objects as they are now, by input position
    dataIsNone,     \* map_embeddings: the caller passed data=None
    embeddings,     \* map_embeddings: number of rows of the embeddings array
    id_field,       \* the identifier field (None already replaced by the default)
    colorable_fields,
    reset_project_if_exists,
    params,         \* the caller's projection / topic parameters
    pc,             \* position in the function body
    data,           \* map_embeddings: the list bound to the local name `data`
    pos,            \* map_text: number of records data_iterator has yielded
    first_sample,   \* map_text: << >> for None, <<r>> for the peeked record r
    add_id_field,   \* map_text add_id_field / map_embeddings added_id_field
    id_to_add,
    batch,
    number_of_datums_before_upload,  \* -1 while not yet read
    project,        \* TRUE once the AtlasDataset object exists
    err,            \* the exception in flight ("none" when there is none)
    result,         \* "unset", "None" or "project"
    warnings,       \* the warnings logged, in order
    calls,          \* the remote calls made, in order, with their outcome
    exists,         \* the remote dataset exists
    remote          \* the records the remote dataset holds

inputVars == <<fn, input, dataIsNone, embeddings, id_field, colorable_fields,
               reset_project_if_exists, params>>
localVars == <<callerList, callerRecords, data, pos, first_sample, add_id_field, id_to_add, batch,
               number_of_datums_before_upload, project, err, result, warnings>>
remoteVars == <<calls, exists, remote>>
vars == <<inputVars, pc, localVars, remoteVars>>

(***************************************************************************)
(* The Dataset Session (nomic/dataset.py, AtlasDataset).  Each operation   *)
(* either takes effect or raises; the outcome is chosen by the caller of   *)
(* these operators.                                                        *)
(***************************************************************************)
Call(op, b, args, ok) == [op |-> op, batch |-> b, args |-> args, ok |-> ok]

NoArgs == [none |-> TRUE]

\* AtlasDataset(...): create the dataset, or open it, emptying it when
\* reset_project_if_exists is set.
CreateOrOpen(modality, ok) ==
    /\ calls' = Append(calls, Call("create_or_open", << >>,
                    [unique_id_field |-> id_field, modality |-> modality,
                     reset_project_if_exists |-> reset_project_if_exists], ok))
    /\ IF ok
       THEN /\ exists' = TRUE
            /\ remote' = IF reset_project_if_exists THEN << >> ELSE remote
       ELSE UNCHANGED <<exists, remote>>

\* project.total_datums
TotalDatums == Len(remote)

\* project.add_text(batch) / project.add_embeddings(embeddings, data)
AddRecords(op, b, ok) ==
    /\ calls' = Append(calls, Call(op, b, NoArgs, ok))
    /\ remote' = IF ok THEN remote \o b ELSE remote
    /\ UNCHANGED exists

\* project.delete()
Delete(ok) ==
    /\ calls' = Append(calls, Call("delete", << >>, NoArgs, ok))
    /\ IF ok
       THEN exists' = FALSE /\ remote' = << >>
       ELSE UNCHANGED <<exists, remote>>

\* project.create_index(...), project.rebuild_maps(), project._latest_project_state()
RemoteOp(op, args, ok) ==
    /\ calls' = Append(calls, Call(op, << >>, args, ok))
    /\ UNCHANGED <<exists, remote>>

\* project._validate_map_data_inputs(colorable_fields, id_field, data_sample):
\* the colorable fields must be fields of the sample, and the identifier field
\* must be one too unless it is about to be synthesized.
ValidMapDataInputs(colorable, idf, sample, synthesized) ==
    /\ colorable \subseteq DOMAIN sample
    /\ synthesized \/ idf \in DOMAIN sample


(***************************************************************************)
(* The call: arguments of the caller and state of the remote dataset.      *)
(***************************************************************************)
Init ==
    /\ fn \in {"map_text", "map_embeddings"}
    /\ input \in SeqsUpTo(RecordSet, MaxLen)
    /\ dataIsNone \in (IF fn = "map_embeddings" /\ input = << >> THEN BOOLEAN ELSE {FALSE})
    /\ embeddings \in
         IF fn = "map_text" THEN {0}
         ELSE IF dataIsNone THEN 0..MaxLen
         ELSE IF input = << >> THEN {0, 1}
         ELSE {Len(input)}
    /\ id_field \in {ATLAS_DEFAULT_ID_FIELD, "uid"}
    /\ colorable_fields \in {{"text"}, {"label"}}
    /\ reset_project_if_exists \in BOOLEAN
    /\ params \in ParamSet
    /\ remote \in {<< >>, <<RecOld>>}
    /\ exists = (remote # << >>)
    /\ callerList = input
    /\ callerRecords = input
    /\ data = input
    /\ pc = "start"
    /\ pos = 0
    /\ first_sample = << >>
    /\ add_id_field = FALSE
    /\ id_to_add = 0
    /\ batch = << >>
    /\ number_of_datums_before_upload = -1
    /\ project = FALSE
    /\ err = "none"
    /\ result = "unset"
    /\ warnings = << >>
    /\ calls = << >>

(***************************************************************************)
(* Helpers shared by the steps of map_text.                                *)
(***************************************************************************)
\* the test for an input without samples left out
MT_NoSamples_never(sample) == FALSE

\* atlas.py:213  first_sample is None
MT_NoSamples(sample) == sample = << >>

\* the synthesis decision taken without looking at the first sample
MT_NeedsId_unlooked(idf, sample) == idf = ATLAS_DEFAULT_ID_FIELD

\* atlas.py:229  id_field == ATLAS_DEFAULT_ID_FIELD and id_field not in first_sample
MT_NeedsId(idf, sample) == idf = ATLAS_DEFAULT_ID_FIELD /\ idf \notin DOMAIN sample

\* a value the record already has in the identifier field kept
MT_WithId_keeps(d, idf, k) ==
    IF idf \in DOMAIN d THEN d
    ELSE [f \in DOMAIN d \cup {idf} |-> IF f = idf THEN b64int(k) ELSE d[f]]

\* the counter advanced before it is used
MT_WithId_late(d, idf, k) ==
    [f \in DOMAIN d \cup {idf} |-> IF f = idf THEN b64int(k + 1) ELSE d[f]]

\* atlas.py:257-259  d = d.copy(); d[id_field] = b64int(id_to_add)
MT_WithId(d, idf, k) ==
    [f \in DOMAIN d \cup {idf} |-> IF f = idf THEN b64int(k) ELSE d[f]]

\* the batch opened empty, the peeked sample forgotten
MT_FirstBatch_empty(sample) == << >>

\* the identifier written to the caller's record, the copy left out
MT_Original_written(d, idf, k) ==
    [f \in DOMAIN d \cup {idf} |-> IF f = idf THEN b64int(k) ELSE d[f]]

\* atlas.py:248, 257  d = d.copy(): the name is rebound to a new dict, so the
\* write of the next line leaves the caller's record d as it was
MT_Original(d, idf, k) == d

\* atlas.py:252  batch = [first_sample]
MT_FirstBatch(sample) == <<sample>>

\* the size test off by one
MT_BatchFull_late(b) == Len(b) > upload_batch_size

\* atlas.py:262  len(batch) >= upload_batch_size
MT_BatchFull(b) == Len(b) >= upload_batch_size

\* atlas.py:264  batch = []
MT_ClearedBatch(b) == << >>

\* the rollback test made on the record count of the moment of the failure
MT_Fresh_reread(n) == TotalDatums = 0

\* the rollback test inverted / the rollback applied to every dataset
MT_Fresh_inverted(n) == n > 0
MT_Fresh_always(n) == n >= 0

\* atlas.py:270  number_of_datums_before_upload == 0
MT_Fresh(n) == n = 0

\* the post-upload test inverted
MT_MakesIndex_inverted(n) == n > 0

\* atlas.py:278  number_of_datums_before_upload == 0
MT_MakesIndex(n) == n = 0

(***************************************************************************)
(* map_text                                                                *)
(***************************************************************************)
\* lines 189-215: defaults, data_iterator, the peek of the first sample, and
\* the early return on an input without samples.  next(data_iterator, None)
\* yields the next record, or None when the iterator is exhausted; an iterator
\* that is not exhausted may also raise in place of yielding.
MT_Peek ==
    /\ pc = "start" /\ fn = "map_text"
    /\ \E yields \in (IF pos < Len(callerList) THEN BOOLEAN ELSE {TRUE}) :
         IF yields
         THEN /\ first_sample' = IF pos < Len(callerList) THEN <<callerRecords[pos + 1]>>
                                 ELSE << >>
              /\ pos' = IF pos < Len(callerList) THEN pos + 1 ELSE pos
              /\ IF MT_NoSamples(first_sample')
                 THEN /\ warnings' = Append(warnings, "no samples")
                      /\ result' = "None"
                      /\ pc' = "returned"
                 ELSE /\ pc' = "mt_create"
                      /\ UNCHANGED <<result, warnings>>
              /\ err' = err
         ELSE /\ err' = "IterError"
              /\ pc' = "raised"
              /\ UNCHANGED <<first_sample, pos, result, warnings>>
    /\ UNCHANGED <<inputVars, callerList, callerRecords, data, add_id_field, id_to_add, batch,
                   number_of_datums_before_upload, project, remoteVars>>

\* lines 217-225: project = AtlasDataset(...)
MT_Create ==
    /\ pc = "mt_create"
    /\ \E ok \in BOOLEAN :
         /\ CreateOrOpen("text", ok)
         /\ project' = ok
         /\ err' = IF ok THEN err ELSE "CreateError"
         /\ pc' = IF ok THEN "mt_validate" ELSE "raised"
    /\ UNCHANGED <<inputVars, callerList, callerRecords, data, pos, first_sample, add_id_field,
                   id_to_add, batch, number_of_datums_before_upload, result, warnings>>

\* lines 227-235: the synthesis decision, its warning, and the validation of
\* the arguments against the first sample.
MT_Validate ==
    /\ pc = "mt_validate"
    /\ LET need == MT_NeedsId(id_field, first_sample[1])
       IN  /\ add_id_field' = need
           /\ warnings' = IF need THEN Append(warnings, "id generated") ELSE warnings
           /\ IF ValidMapDataInputs(colorable_fields, id_field, first_sample[1], need)
              THEN pc' = "mt_total" /\ err' = err
              ELSE pc' = "raised" /\ err' = "ValidationError"
    /\ UNCHANGED <<inputVars, callerList, callerRecords, data, pos, first_sample, id_to_add, batch,
                   number_of_datums_before_upload, project, result, remoteVars>>

\* lines 237-243: number_of_datums_before_upload = project.total_datums
MT_ReadTotal ==
    /\ pc = "mt_total"
    /\ number_of_datums_before_upload' = TotalDatums
    /\ calls' = Append(calls, Call("total_datums", << >>, [value |-> TotalDatums], TRUE))
    /\ pc' = "mt_first"
    /\ UNCHANGED <<inputVars, callerList, callerRecords, data, pos, first_sample, add_id_field,
                   id_to_add, batch, project, err, result, warnings, exists, remote>>

\* lines 244-252: the first sample gets counter 0 and opens the first batch.
\* Copying the sample may raise; that is inside the try block.
MT_First ==
    /\ pc = "mt_first"
    /\ IF add_id_field
       THEN \E copies \in BOOLEAN :
              IF copies
              THEN /\ first_sample' = <<MT_WithId(first_sample[1], id_field, 0)>>
                   /\ callerRecords' = [callerRecords EXCEPT
                                          ![1] = MT_Original(first_sample[1], id_field, 0)]
                   /\ id_to_add' = 1
                   /\ batch' = MT_FirstBatch(first_sample'[1])
                   /\ pc' = "mt_loop"
                   /\ err' = err
              ELSE /\ err' = "CopyError"
                   /\ pc' = "mt_except"
                   /\ UNCHANGED <<first_sample, callerRecords, id_to_add, batch>>
       ELSE /\ id_to_add' = 0
            /\ batch' = MT_FirstBatch(first_sample[1])
            /\ pc' = "mt_loop"
            /\ UNCHANGED <<first_sample, callerRecords, err>>
    /\ UNCHANGED <<inputVars, callerList, data, pos, add_id_field,
                   number_of_datums_before_upload, project, result, warnings, remoteVars>>


\* lines 254-264: one iteration of the loop.  The iterator yields the next
\* record or raises in its place; with synthesis on the record is copied (the
\* copy may raise) and gets the next counter value; a full batch is sent.
MT_Loop ==
    /\ pc = "mt_loop"
    /\ pos < Len(callerList)
    /\ \E step \in {"iter_raises", "copy_raises", "goes_on"} :
         CASE step = "iter_raises" ->
                /\ err' = "IterError"
                /\ pc' = "mt_except"
                /\ UNCHANGED <<pos, callerRecords, id_to_add, batch, remoteVars>>
           [] step = "copy_raises" ->
                /\ add_id_field
                /\ pos' = pos + 1
                /\ err' = "CopyError"
                /\ pc' = "mt_except"
                /\ UNCHANGED <<callerRecords, id_to_add, batch, remoteVars>>
           [] step = "goes_on" ->
                LET d == IF add_id_field
                         THEN MT_WithId(callerRecords[pos + 1], id_field, id_to_add)
                         ELSE callerRecords[pos + 1]
                    appended == Append(batch, d)
                IN  /\ pos' = pos + 1
                    /\ callerRecords' =
                         IF add_id_field
                         THEN [callerRecords EXCEPT
                                 ![pos + 1] = MT_Original(callerRecords[pos + 1], id_field, id_to_add)]
                         ELSE callerRecords
                    /\ id_to_add' = IF add_id_field THEN id_to_add + 1 ELSE id_to_add
                    /\ IF MT_BatchFull(appended)
                       THEN \E ok \in BOOLEAN :
                              /\ AddRecords("add_text", appended, ok)
                              /\ batch' = IF ok THEN MT_ClearedBatch(appended) ELSE appended
                              /\ err' = IF ok THEN err ELSE "AddError"
                              /\ pc' = IF ok THEN "mt_loop" ELSE "mt_except"
                       ELSE /\ batch' = appended
                            /\ UNCHANGED <<err, pc, remoteVars>>
    /\ UNCHANGED <<inputVars, callerList, data, first_sample, add_id_field,
                   number_of_datums_before_upload, project, result, warnings>>

\* lines 266-267: the iterator is exhausted; a non-empty remainder is sent.
MT_Flush ==
    /\ pc = "mt_loop"
    /\ pos = Len(callerList)
    /\ IF Len(batch) > 0
       THEN \E ok \in BOOLEAN :
              /\ AddRecords("add_text", batch, ok)
              /\ err' = IF ok THEN err ELSE "AddError"
              /\ pc' = IF ok THEN "mt_post" ELSE "mt_except"
       ELSE /\ pc' = "mt_post"
            /\ UNCHANGED <<err, remoteVars>>
    /\ UNCHANGED <<inputVars, callerList, callerRecords, data, pos, first_sample, add_id_field,
                   id_to_add, batch, number_of_datums_before_upload, project,
                   result, warnings>>

\* the handler without its `raise e`: the function goes on after the rollback
MT_Except_swallows ==
    /\ pc = "mt_except"
    /\ IF MT_Fresh(number_of_datums_before_upload)
       THEN \E ok \in BOOLEAN :
              /\ Delete(ok)
              /\ err' = IF ok THEN err ELSE "DeleteError"
              /\ pc' = IF ok THEN "mt_post" ELSE "raised"
       ELSE /\ pc' = "mt_post"
            /\ UNCHANGED <<err, remoteVars>>
    /\ UNCHANGED <<inputVars, callerList, callerRecords, data, pos, first_sample,
                   add_id_field, id_to_add, batch, number_of_datums_before_upload,
                   project, result, warnings>>

\* lines 269-273: except BaseException: delete a fresh dataset, then raise e.
\* An exception raised by delete() leaves the handler in place of e.
MT_Except ==
    /\ pc = "mt_except"
    /\ IF MT_Fresh(number_of_datums_before_upload)
       THEN \E ok \in BOOLEAN :
              /\ Delete(ok)
              /\ err' = IF ok THEN err ELSE "DeleteError"
       ELSE UNCHANGED <<err, remoteVars>>
    /\ pc' = "raised"
    /\ UNCHANGED <<inputVars, callerList, callerRecords, data, pos, first_sample, add_id_field,
                   id_to_add, batch, number_of_datums_before_upload, project,
                   result, warnings>>

\* the try block drawn around the index creation: its failure rolls back too
MT_Post_rollsback ==
    /\ pc = "mt_post"
    /\ \E ok \in BOOLEAN :
         /\ IF MT_MakesIndex(number_of_datums_before_upload)
            THEN RemoteOp("create_index",
                          [indexed_field |-> "text", colorable_fields |-> colorable_fields,
                           params |-> params], ok)
            ELSE RemoteOp("rebuild_maps", NoArgs, ok)
         /\ err' = IF ok THEN err
                   ELSE IF MT_MakesIndex(number_of_datums_before_upload) THEN "CreateIndexError"
                   ELSE "RebuildError"
         /\ pc' = IF ok THEN "mt_return" ELSE "mt_except"
    /\ UNCHANGED <<inputVars, callerList, callerRecords, data, pos, first_sample,
                   add_id_field, id_to_add, batch, number_of_datums_before_upload,
                   project, result, warnings>>

\* lines 277-293: a new index for a dataset that was empty, a refresh of the
\* maps otherwise.
MT_Post ==
    /\ pc = "mt_post"
    /\ \E ok \in BOOLEAN :
         /\ IF MT_MakesIndex(number_of_datums_before_upload)
            THEN RemoteOp("create_index",
                          [indexed_field |-> "text", colorable_fields |-> colorable_fields,
                           params |-> params], ok)
            ELSE RemoteOp("rebuild_maps", NoArgs, ok)
         /\ err' = IF ok THEN err
                   ELSE IF MT_MakesIndex(number_of_datums_before_upload) THEN "CreateIndexError"
                   ELSE "RebuildError"
         /\ pc' = IF ok THEN "mt_return" ELSE "raised"
    /\ UNCHANGED <<inputVars, callerList, callerRecords, data, pos, first_sample, add_id_field,
                   id_to_add, batch, number_of_datums_before_upload, project,
                   result, warnings>>

\* lines 295-296: project = project._latest_project_state(); return project
MT_Return ==
    /\ pc = "mt_return"
    /\ \E ok \in BOOLEAN :
         /\ RemoteOp("latest_project_state", NoArgs, ok)
         /\ err' = IF ok THEN err ELSE "StateError"
         /\ result' = IF ok THEN "project" ELSE result
         /\ pc' = IF ok THEN "returned" ELSE "raised"
    /\ UNCHANGED <<inputVars, callerList, callerRecords, data, pos, first_sample, add_id_field,
                   id_to_add, batch, number_of_datums_before_upload, project, warnings>>


(***************************************************************************)
(* map_embeddings                                                          *)
(***************************************************************************)
\* atlas.py:82  [{ATLAS_DEFAULT_ID_FIELD: b64int(i)} for i in range(len(embeddings))]
ME_DefaultData(n) == [i \in 1..n |-> [id_ |-> b64int(i - 1)]]

\* atlas.py:85  id_field == ATLAS_DEFAULT_ID_FIELD and id_field not in data[0]
ME_NeedsId(idf, d) == idf = ATLAS_DEFAULT_ID_FIELD /\ idf \notin DOMAIN d[1]

\* atlas.py:87-90  data[i] = data[i].copy(); data[i][id_field] = b64int(i)
ME_WithIds(d, idf) ==
    [i \in 1..Len(d) |->
        [f \in DOMAIN d[i] \cup {idf} |-> IF f = idf THEN b64int(i - 1) ELSE d[i][f]]]

\* atlas.py:89  data[i] = data[i].copy(): the list element is replaced by a new
\* dict, so the write of line 90 leaves the caller's records d as they were
ME_Originals(d, idf) == d

\* the test for an empty array left out
ME_Empty_never(n) == FALSE

\* atlas.py:63  embeddings.size == 0
ME_Empty(n) == n = 0

\* atlas.py:122  number_of_datums_before_upload == 0
ME_Fresh(n) == n = 0

\* atlas.py:130  number_of_datums_before_upload == 0
ME_MakesIndex(n) == n = 0

\* lines 61-93: the empty-array check, the defaults, the metadata made up for
\* data=None, and the identifiers written into the elements of `data`.
\* data[0] raises IndexError on an empty list; the assignments of line 89
\* replace the elements of the list the caller passed.
ME_Prepare ==
    /\ pc = "start" /\ fn = "map_embeddings"
    /\ IF ME_Empty(embeddings)
       THEN /\ err' = "EmptyEmbeddings"
            /\ pc' = "raised"
            /\ UNCHANGED <<data, callerList, callerRecords, add_id_field, warnings>>
       ELSE LET given == IF dataIsNone THEN ME_DefaultData(embeddings) ELSE callerList
            IN  IF id_field = ATLAS_DEFAULT_ID_FIELD /\ given = << >>
                THEN /\ err' = "IndexError"
                     /\ pc' = "raised"
                     /\ UNCHANGED <<data, callerList, callerRecords, add_id_field, warnings>>
                ELSE LET need == ME_NeedsId(id_field, given)
                         added == dataIsNone \/ need
                     IN  /\ data' = IF need THEN ME_WithIds(given, id_field) ELSE given
                         /\ callerList' = IF dataIsNone THEN callerList ELSE data'
                         /\ callerRecords' = IF need /\ ~dataIsNone
                                             THEN ME_Originals(given, id_field)
                                             ELSE callerRecords
                         /\ add_id_field' = added
                         /\ warnings' = IF added THEN Append(warnings, "id generated")
                                        ELSE warnings
                         /\ pc' = "me_create"
                         /\ err' = err
    /\ UNCHANGED <<inputVars, pos, first_sample, id_to_add, batch,
                   number_of_datums_before_upload, project, result, remoteVars>>

\* lines 96-104: project = AtlasDataset(...)
ME_Create ==
    /\ pc = "me_create"
    /\ \E ok \in BOOLEAN :
         /\ CreateOrOpen("embedding", ok)
         /\ project' = ok
         /\ err' = IF ok THEN err ELSE "CreateError"
         /\ pc' = IF ok THEN "me_total" ELSE "raised"
    /\ UNCHANGED <<inputVars, callerList, callerRecords, data, pos, first_sample, add_id_field,
                   id_to_add, batch, number_of_datums_before_upload, result, warnings>>

\* lines 106-114: number_of_datums_before_upload = project.total_datums
ME_ReadTotal ==
    /\ pc = "me_total"
    /\ number_of_datums_before_upload' = TotalDatums
    /\ calls' = Append(calls, Call("total_datums", << >>, [value |-> TotalDatums], TRUE))
    /\ pc' = "me_add"
    /\ UNCHANGED <<inputVars, callerList, callerRecords, data, pos, first_sample, add_id_field,
                   id_to_add, batch, project, err, result, warnings, exists, remote>>

\* lines 116-120: project.add_embeddings(embeddings=embeddings, data=data);
\* the call cannot succeed unless there is one record per embedding.
ME_Add ==
    /\ pc = "me_add"
    /\ \E ok \in (IF Len(data) = embeddings THEN BOOLEAN ELSE {FALSE}) :
         /\ AddRecords("add_embeddings", data, ok)
         /\ err' = IF ok THEN err ELSE "AddError"
         /\ pc' = IF ok THEN "me_post" ELSE "me_except"
    /\ UNCHANGED <<inputVars, callerList, callerRecords, data, pos, first_sample, add_id_field,
                   id_to_add, batch, number_of_datums_before_upload, project,
                   result, warnings>>

\* lines 121-125: except BaseException: delete a fresh dataset, then raise e.
ME_Except ==
    /\ pc = "me_except"
    /\ IF ME_Fresh(number_of_datums_before_upload)
       THEN \E ok \in BOOLEAN :
              /\ Delete(ok)
              /\ err' = IF ok THEN err ELSE "DeleteError"
       ELSE UNCHANGED <<err, remoteVars>>
    /\ pc' = "raised"
    /\ UNCHANGED <<inputVars, callerList, callerRecords, data, pos, first_sample, add_id_field,
                   id_to_add, batch, number_of_datums_before_upload, project,
                   result, warnings>>

\* lines 129-142: a new index for a dataset that was empty, a refresh of the
\* maps otherwise.
ME_Post ==
    /\ pc = "me_post"
    /\ \E ok \in BOOLEAN :
         /\ IF ME_MakesIndex(number_of_datums_before_upload)
            THEN RemoteOp("create_index",
                          [colorable_fields |-> colorable_fields, params |-> params], ok)
            ELSE RemoteOp("rebuild_maps", NoArgs, ok)
         /\ err' = IF ok THEN err
                   ELSE IF ME_MakesIndex(number_of_datums_before_upload) THEN "CreateIndexError"
                   ELSE "RebuildError"
         /\ pc' = IF ok THEN "me_return" ELSE "raised"
    /\ UNCHANGED <<inputVars, callerList, callerRecords, data, pos, first_sample, add_id_field,
                   id_to_add, batch, number_of_datums_before_upload, project,
                   result, warnings>>

\* lines 144-145: project = project._latest_project_state(); return project
ME_Return ==
    /\ pc = "me_return"
    /\ \E ok \in BOOLEAN :
         /\ RemoteOp("latest_project_state", NoArgs, ok)
         /\ err' = IF ok THEN err ELSE "StateError"
         /\ result' = IF ok THEN "project" ELSE result
         /\ pc' = IF ok THEN "returned" ELSE "raised"
    /\ UNCHANGED <<inputVars, callerList, callerRecords, data, pos, first_sample, add_id_field,
                   id_to_add, batch, number_of_datums_before_upload, project, warnings>>

Next ==
    \/ MT_Peek \/ MT_Create \/ MT_Validate \/ MT_ReadTotal \/ MT_First
    \/ MT_Loop \/ MT_Flush \/ MT_Except \/ MT_Post \/ MT_Return
    \/ ME_Prepare \/ ME_Create \/ ME_ReadTotal \/ ME_Add
    \/ ME_Except \/ ME_Post \/ ME_Return

Spec == Init /\ [][Next]_vars


(***************************************************************************)
(* The call log, read back.                                                *)
(***************************************************************************)
IsAdd(c) == c.op \in {"add_text", "add_embeddings"}

CallsOf(op) == SelectSeq(calls, LAMBDA c : c.op = op)

\* the add calls made so far, in call order
AddCalls == SelectSeq(calls, IsAdd)

RECURSIVE Batches(_)
\* the concatenation of the batches of the calls cs
Batches(cs) == IF cs = << >> THEN << >> ELSE Head(cs).batch \o Batches(Tail(cs))

\* every record handed to an add call, in the order handed over
Sent == Batches(AddCalls)

\* the records of the add calls that succeeded
Accepted == Batches(SelectSeq(AddCalls, LAMBDA c : c.ok))

AddFailed == \E i \in 1..Len(AddCalls) : ~AddCalls[i].ok

\* every batch of the upload was accepted and the upload phase is over
UploadDone ==
    \/ pc \in {"mt_post", "mt_return", "me_post", "me_return"}
    \/ pc = "returned" /\ result = "project"
    \/ pc = "raised" /\ err \in {"CreateIndexError", "RebuildError", "StateError"}

(***************************************************************************)
(* Claims                                                                  *)
(***************************************************************************)
\* C1: on a dataset that was fresh when total_datums was read, once an add
\* call has failed no further add call is made, delete() is never invoked
\* more than once, and when the call ends delete() has been invoked exactly
\* once, after the failed add call.
C1_FreshFailureDeletesOnce ==
    (number_of_datums_before_upload = 0 /\ AddFailed) =>
        /\ \A i \in 1..Len(calls) : \A j \in 1..Len(calls) :
              (IsAdd(calls[i]) /\ ~calls[i].ok /\ i < j) => calls[j].op = "delete"
        /\ Len(CallsOf("delete")) <= 1
        /\ pc \in {"raised", "returned"} =>
              /\ pc = "raised"
              /\ Len(CallsOf("delete")) = 1
              /\ calls[Len(calls)].op = "delete"

\* C1 witness: map_text on a fresh dataset, the second batch failed, the call
\* has ended.
C1_Witness ==
    /\ fn = "map_text" /\ pc = "raised"
    /\ number_of_datums_before_upload = 0
    /\ Len(AddCalls) = 2 /\ AddCalls[1].ok /\ ~AddCalls[2].ok
    /\ Len(CallsOf("delete")) = 1

\* C2 (as claimed): whenever an add call failed, the exception that leaves
\* map_text / map_embeddings is that add failure, whatever delete() did.
C2_OriginalErrorPropagates ==
    (pc = "raised" /\ AddFailed) => err = "AddError"

\* C3: on a dataset that held records when total_datums was read, a failed
\* add call ends the call with the add failure, delete() is never invoked,
\* and the remote dataset holds its earlier records followed by the batches
\* accepted before the failure.
C3_PreexistingFailureKeepsBatches ==
    (number_of_datums_before_upload > 0 /\ AddFailed) =>
        /\ CallsOf("delete") = << >>
        /\ exists
        /\ Len(remote) = number_of_datums_before_upload + Len(Accepted)
        /\ SubSeq(remote, number_of_datums_before_upload + 1, Len(remote)) = Accepted
        /\ pc \in {"raised", "returned"} => (pc = "raised" /\ err = "AddError")

\* C3 witness: map_text on a dataset with records, one batch accepted, the
\* next one refused.
C3_Witness ==
    /\ fn = "map_text" /\ pc = "raised"
    /\ number_of_datums_before_upload > 0
    /\ AddFailed
    /\ Len(Accepted) = upload_batch_size
    /\ Len(remote) = number_of_datums_before_upload + upload_batch_size

\* C4 (as claimed): when map_text raises a validation error no remote call has
\* been made and no Dataset Session has been created, opened or reset.
C4_ValidationBeforeRemote ==
    err = "ValidationError" => (calls = << >> /\ ~project)

\* C5: with the default identifier field and an input of N >= 1 records none
\* of which has that field, the k-th record handed to an add call carries
\* b64int(k-1), no two records handed over carry the same identifier, and
\* once the upload is over N records have been handed over.
C5_SynthesizedIdsInOrder ==
    ( /\ id_field = ATLAS_DEFAULT_ID_FIELD
      /\ Len(input) >= 1
      /\ \A k \in 1..Len(input) : ATLAS_DEFAULT_ID_FIELD \notin DOMAIN input[k] ) =>
        /\ \A k \in 1..Len(Sent) :
              /\ ATLAS_DEFAULT_ID_FIELD \in DOMAIN Sent[k]
              /\ Sent[k][ATLAS_DEFAULT_ID_FIELD] = b64int(k - 1)
        /\ \A j \in 1..Len(Sent) : \A k \in 1..Len(Sent) :
              j # k => Sent[j][ATLAS_DEFAULT_ID_FIELD] # Sent[k][ATLAS_DEFAULT_ID_FIELD]
        /\ UploadDone => Len(Sent) = Len(input)

\* C5 witness: map_text has returned after an upload of more records than one
\* batch holds, none of them with an identifier.
C5_Witness ==
    /\ fn = "map_text" /\ pc = "returned" /\ result = "project"
    /\ id_field = ATLAS_DEFAULT_ID_FIELD
    /\ Len(input) > upload_batch_size
    /\ \A k \in 1..Len(input) : ATLAS_DEFAULT_ID_FIELD \notin DOMAIN input[k]
    /\ Len(Sent) = Len(input)
    /\ Sent[Len(Sent)][ATLAS_DEFAULT_ID_FIELD] = b64int(Len(input) - 1)

\* the k-th record of the input as map_text is to send it: as supplied, or
\* with the identifier of its position when the first record of the input
\* lacks the default identifier field
C6_Expected(k) ==
    IF id_field = ATLAS_DEFAULT_ID_FIELD /\ id_field \notin DOMAIN input[1]
    THEN [f \in DOMAIN input[k] \cup {id_field} |->
            IF f = id_field THEN b64int(k - 1) ELSE input[k][f]]
    ELSE input[k]

\* C6: in map_text the batches handed to add_text, concatenated in call
\* order, are a prefix of the (identifier-augmented) input in its order, the
\* records buffered in `batch` continue that prefix up to the last record
\* pulled, and once the upload is over the concatenation is the whole input.
C6_BatchesReconstructInput ==
    fn = "map_text" =>
        /\ Len(Sent) <= Len(input)
        /\ \A k \in 1..Len(Sent) : Sent[k] = C6_Expected(k)
        /\ UploadDone => Len(Sent) = Len(input)
        /\ (pc = "mt_loop" /\ ~AddFailed) =>
              /\ Len(Accepted) + Len(batch) = pos
              /\ \A k \in 1..Len(batch) : batch[k] = C6_Expected(Len(Accepted) + k)

\* C6 witness: map_text has returned after sending an input of more than two
\* batches whose first record was peeked.
C6_Witness ==
    /\ fn = "map_text" /\ pc = "returned" /\ result = "project"
    /\ Len(input) > 2 * upload_batch_size
    /\ Len(AddCalls) >= 3
    /\ AddCalls[1].batch[1] = C6_Expected(1)
    /\ Sent = [k \in 1..Len(input) |-> C6_Expected(k)]

\* C7: in map_text every batch handed to add_text holds between 1 and
\* upload_batch_size records, every batch but the last holds exactly
\* upload_batch_size, and an upload of N records that is over took
\* ceil(N / upload_batch_size) add_text calls.
C7_BatchSizes ==
    fn = "map_text" =>
        LET T == CallsOf("add_text")
        IN  /\ \A i \in 1..Len(T) :
                 /\ Len(T[i].batch) >= 1
                 /\ Len(T[i].batch) <= upload_batch_size
                 /\ i < Len(T) => Len(T[i].batch) = upload_batch_size
            /\ UploadDone =>
                 Len(T) = (Len(input) + upload_batch_size - 1) \div upload_batch_size

\* C7 witness: map_text has returned after an input of exactly two full
\* batches, sent in two calls.
C7_Witness ==
    /\ fn = "map_text" /\ pc = "returned" /\ result = "project"
    /\ Len(input) = 2 * upload_batch_size
    /\ Len(CallsOf("add_text")) = 2

\* C8: once every batch was accepted and the call has ended, a dataset that
\* was fresh has seen exactly one create_index call, made with the caller's
\* colorable fields and projection / topic parameters, and no rebuild_maps
\* call; a dataset that held records has seen exactly one rebuild_maps call
\* and no create_index call.
C8_IndexOrRebuild ==
    (UploadDone /\ pc \in {"returned", "raised"}) =>
        IF number_of_datums_before_upload = 0
        THEN /\ Len(CallsOf("create_index")) = 1
             /\ CallsOf("create_index")[1].args.params = params
             /\ CallsOf("create_index")[1].args.colorable_fields = colorable_fields
             /\ CallsOf("rebuild_maps") = << >>
        ELSE /\ number_of_datums_before_upload > 0
             /\ Len(CallsOf("rebuild_maps")) = 1
             /\ CallsOf("create_index") = << >>

\* C8 witness: map_text has returned from an upload to a dataset that held
\* records, after one rebuild_maps call.
C8_Witness ==
    /\ fn = "map_text" /\ pc = "returned" /\ result = "project"
    /\ number_of_datums_before_upload > 0
    /\ ~AddFailed /\ Len(AddCalls) >= 2
    /\ Len(CallsOf("rebuild_maps")) = 1

\* C9: when the first record of the input contains the identifier field,
\* every record handed to an add call is the input record of its position,
\* exactly as supplied.
C9_PassThrough ==
    (Len(input) >= 1 /\ id_field \in DOMAIN input[1]) =>
        /\ Len(Sent) <= Len(input)
        /\ \A k \in 1..Len(Sent) : Sent[k] = input[k]

\* C9 witness: map_text has sent, unchanged, a later record that lacks the
\* default identifier field which the first record has.
C9_Witness ==
    /\ fn = "map_text" /\ pc = "returned" /\ result = "project"
    /\ id_field = ATLAS_DEFAULT_ID_FIELD
    /\ id_field \in DOMAIN input[1]
    /\ \E k \in 2..Len(Sent) : id_field \notin DOMAIN input[k] /\ Sent[k] = input[k]

\* C10: map_text on an input that yields no record makes no remote call,
\* creates no Dataset Session, leaves the remote dataset as it was, raises
\* nothing and returns None.
C10_EmptyInputNoEffect ==
    (fn = "map_text" /\ input = << >>) =>
        /\ calls = << >>
        /\ ~project
        /\ exists = (remote # << >>) /\ remote \in {<< >>, <<RecOld>>}
        /\ err = "none"
        /\ pc \in {"start", "returned"}
        /\ pc = "returned" => result = "None"

\* C10 witness: map_text has returned None on an empty input.
C10_Witness ==
    /\ fn = "map_text" /\ input = << >>
    /\ pc = "returned" /\ result = "None"
    /\ warnings = <<"no samples">>


\* C11 (as claimed): every record handed to an add call contains the
\* identifier field the dataset was created with.
C11_EveryRecordHasIdField ==
    \A k \in 1..Len(Sent) : id_field \in DOMAIN Sent[k]

\* C12: map_embeddings called with an empty embeddings array ends with an
\* error, having made no remote call and created no Dataset Session, and
\* leaves the remote dataset as it was.
C12_EmptyEmbeddingsRejected ==
    (fn = "map_embeddings" /\ embeddings = 0) =>
        /\ calls = << >>
        /\ ~project
        /\ exists = (remote # << >>) /\ remote \in {<< >>, <<RecOld>>}
        /\ pc \in {"start", "raised"}
        /\ pc = "raised" => err = "EmptyEmbeddings"

\* C12 witness: map_embeddings has raised on an empty array passed with a
\* caller's identifier field.
C12_Witness ==
    /\ fn = "map_embeddings" /\ embeddings = 0 /\ id_field = "uid"
    /\ pc = "raised" /\ err = "EmptyEmbeddings"

\* C13: the record objects the caller supplied hold, at every moment of the
\* call and after it, on success and on failure, the fields and values they
\* held when the call was made.
C13_CallerRecordsUntouched ==
    callerRecords = input

\* C13 witness: map_text has ended after it synthesized identifiers for
\* records of the caller that lack the field, across a batch boundary.
C13_Witness ==
    /\ fn = "map_text" /\ pc \in {"returned", "raised"}
    /\ add_id_field
    /\ Len(Sent) > upload_batch_size
    /\ \E k \in 2..Len(Sent) :
          /\ id_field \notin DOMAIN input[k]
          /\ id_field \in DOMAIN Sent[k]
          /\ callerRecords[k] = input[k]

\* C15: total_datums is read at most once, before every add call and never
\* after one; number_of_datums_before_upload stays the value of that read; and
\* on a dataset
\* that was fresh at that read, a failure of the second or a later batch ends
\* with one delete() call although the dataset then holds accepted batches.
C15_FreshnessReadOnce ==
    /\ Len(CallsOf("total_datums")) <= 1
    /\ (number_of_datums_before_upload = -1) = (CallsOf("total_datums") = << >>)
    /\ number_of_datums_before_upload # -1 =>
          number_of_datums_before_upload = CallsOf("total_datums")[1].args.value
    /\ \A i \in 1..Len(calls) : \A j \in 1..Len(calls) :
          (IsAdd(calls[i]) /\ calls[j].op = "total_datums") => j < i
    /\ ( /\ pc = "raised" /\ AddFailed
         /\ number_of_datums_before_upload = 0
         /\ Len(Accepted) > 0 ) =>
             /\ Len(CallsOf("delete")) = 1
             /\ calls[Len(calls)].op = "delete"

\* C15 witness: map_text on a fresh dataset, first batch accepted, second
\* refused, the dataset deleted.
C15_Witness ==
    /\ fn = "map_text" /\ pc = "raised"
    /\ number_of_datums_before_upload = 0
    /\ Len(AddCalls) >= 2 /\ AddCalls[1].ok /\ AddFailed
    /\ calls[Len(calls)].op = "delete" /\ calls[Len(calls)].ok
    /\ remote = << >>

\* the call is a create_index or a rebuild_maps call
IsIndexing(c) == c.op \in {"create_index", "rebuild_maps"}

\* C16: no create_index / rebuild_maps call is made in a run in which an add
\* call failed or the upload phase raised; there is at most one such call, and
\* every add call precedes it.
C16_IndexAfterAllBatches ==
    /\ AddFailed => \A i \in 1..Len(calls) : ~IsIndexing(calls[i])
    /\ (\E i \in 1..Len(calls) : calls[i].op = "delete") =>
          \A i \in 1..Len(calls) : ~IsIndexing(calls[i])
    /\ Len(SelectSeq(calls, IsIndexing)) <= 1
    /\ \A i \in 1..Len(calls) : \A j \in 1..Len(calls) :
          (IsIndexing(calls[i]) /\ IsAdd(calls[j])) => (j < i /\ calls[j].ok)
    /\ (\E i \in 1..Len(calls) : IsIndexing(calls[i])) =>
          Len(Sent) = (IF fn = "map_text" THEN Len(input) ELSE Len(data))

\* C16 witness: map_text has returned after three accepted batches followed
\* by the one create_index call.
C16_Witness ==
    /\ fn = "map_text" /\ pc = "returned" /\ result = "project"
    /\ Len(AddCalls) = 3
    /\ Len(CallsOf("create_index")) = 1

\* C17: with the default identifier field and a first record that lacks it,
\* the k-th record handed to an add call is the k-th input record with its
\* identifier field set to b64int(k-1), whether or not that record came with
\* a value of its own in the field.
C17_DecisionFromFirstRecord ==
    ( /\ id_field = ATLAS_DEFAULT_ID_FIELD
      /\ Len(input) >= 1
      /\ ATLAS_DEFAULT_ID_FIELD \notin DOMAIN input[1] ) =>
        /\ Len(Sent) <= Len(input)
        /\ \A k \in 1..Len(Sent) :
              /\ DOMAIN Sent[k] = DOMAIN input[k] \cup {ATLAS_DEFAULT_ID_FIELD}
              /\ Sent[k][ATLAS_DEFAULT_ID_FIELD] = b64int(k - 1)
              /\ \A f \in DOMAIN input[k] \ {ATLAS_DEFAULT_ID_FIELD} : Sent[k][f] = input[k][f]

\* C17 witness: map_text has sent a later record that came with its own
\* identifier, which was replaced by the counter value of its position.
C17_Witness ==
    /\ fn = "map_text" /\ id_field = ATLAS_DEFAULT_ID_FIELD
    /\ Len(input) >= 1 /\ ATLAS_DEFAULT_ID_FIELD \notin DOMAIN input[1]
    /\ \E k \in 2..Len(Sent) :
          /\ input[k] = RecId
          /\ Sent[k][ATLAS_DEFAULT_ID_FIELD] = b64int(k - 1)
          /\ Sent[k][ATLAS_DEFAULT_ID_FIELD] # input[k][ATLAS_DEFAULT_ID_FIELD]

\* map_text has ended on an exception raised inside the try block by
\* something other than an add call (the iterator, the copy of a record)
MT_UploadRaisedOther ==
    /\ fn = "map_text" /\ pc = "raised"
    /\ number_of_datums_before_upload >= 0
    /\ ~AddFailed /\ ~UploadDone

\* C18 (as claimed): an exception raised in the upload phase of map_text by
\* the iterator or by the copy of a record leads to exactly one delete() call
\* on a fresh dataset, to none on a pre-existing one, and is the exception
\* that reaches the caller.
C18_AnyUploadExceptionRollsBack ==
    MT_UploadRaisedOther =>
        /\ Len(CallsOf("delete")) =
              (IF number_of_datums_before_upload = 0 THEN 1 ELSE 0)
        /\ err \in {"IterError", "CopyError"}

\* C19: delete() is never invoked in a run whose upload phase was completed:
\* when create_index, rebuild_maps or the final refresh fails after every add
\* call succeeded, the failure reaches the caller, no delete() call is made and
\* the remote dataset holds the records it held before followed by the
\* uploaded ones, also when it was fresh before the upload.
C19_NoDeleteAfterUpload ==
    /\ UploadDone => CallsOf("delete") = << >>
    /\ (pc = "raised" /\ err \in {"CreateIndexError", "RebuildError", "StateError"}) =>
          /\ CallsOf("delete") = << >>
          /\ ~AddFailed
          /\ exists
          /\ Len(remote) = number_of_datums_before_upload + Len(Sent)
          /\ SubSeq(remote, number_of_datums_before_upload + 1, Len(remote)) = Sent
          /\ calls[Len(calls)].ok = FALSE
          /\ calls[Len(calls)].op \in {"create_index", "rebuild_maps", "latest_project_state"}

\* C19 witness: map_text on a fresh dataset, all records accepted, create_index
\* failed, the records still in the remote dataset.
C19_Witness ==
    /\ fn = "map_text" /\ pc = "raised" /\ err = "CreateIndexError"
    /\ number_of_datums_before_upload = 0
    /\ Len(Sent) > upload_batch_size
    /\ remote = Sent

=============================================================================
